---- MODULE Spec2Model ----
(***************************************************************************)
(* Model of homework1/BlindDog.ipynb: Thing / Agent / Environment, and the *)
(* Park / Food / Water / BlindDog specialisation with its agent program.   *)
(*                                                                         *)
(* The state is one Environment object (either a bare Environment or a     *)
(* Park) together with the Thing instances a client holds.  Every public   *)
(* method is a pure operator over a "world" record and one action applies  *)
(* it atomically (the code is single threaded).  An uncaught Python        *)
(* exception is recorded in err; the effects made before it are kept.      *)
(***************************************************************************)
EXTENDS Integers, Sequences, FiniteSets, TLC

VARIABLES things, agents, location, alive, performance, cls,
          err, log, ticks, exo

vars == <<things, agents, location, alive, performance, cls,
          err, log, ticks, exo>>

----------------------------------------------------------------------------
(* Bounds of the model *)

\* largest location a client passes to add_thing under Spec
MaxLoc == 1

\* largest step budget a client passes to run under Spec
MaxSteps == 2

\* a dog is not moved past this location under SpecScenario
ScenarioCap == 16

----------------------------------------------------------------------------
(* Instances and classes *)

Dogs == {"dogA", "dogB"}

Thing == Dogs \cup {"dogfood", "water"}

\* a second Food, held only by the clients of SpecPantry
Instance == Thing \cup {"dogfood2"}

Class(t) ==
    CASE t \in Dogs                    -> "BlindDog"
      [] t \in {"dogfood", "dogfood2"} -> "Food"
      [] t = "water"                   -> "Water"

\* isinstance(t, tclass) over the hierarchy Thing > Agent > BlindDog, Thing > Food, Thing > Water
IsInstance(t, tclass) ==
    \/ tclass = "Thing"
    \/ tclass = Class(t)
    \/ tclass = "Agent" /\ Class(t) = "BlindDog"

\* location=None, also the value of Environment.default_location
NoneLoc == -1

\* the instance has no location attribute at all
Absent == -2

default_location(t) == NoneLoc

\* isinstance(location, numbers.Number)
IsNumber(l) == l >= 0

\* the tuple locations a client passes; location -2 - i stands for VectorTable[i]
VectorTable == << <<1>>, <<1, 2>>, <<1, 2, 3>>, <<2, 1>> >>

Vector(i) == -2 - i

IsVector(l) == l <= -3

Components(l) == VectorTable[-2 - l]

\* the class attribute BlindDog.location = 1; other classes define none
ClassLocation(t) == IF Class(t) = "BlindDog" THEN 1 ELSE Absent

Range(s) == {s[i] : i \in 1..Len(s)}

\* list.remove(x): drops the first element equal to x
Remove(s, x) ==
    LET i == CHOOSE k \in 1..Len(s) : s[k] = x /\ \A j \in 1..(k-1) : s[j] # x
    IN  SubSeq(s, 1, i-1) \o SubSeq(s, i+1, Len(s))

World == [things |-> things, agents |-> agents, location |-> location,
          alive |-> alive, performance |-> performance, cls |-> cls,
          err |-> "none", log |-> <<>>, ticks |-> 0, exo |-> <<>>, missed |-> 0]

Raise(w, e) == [w EXCEPT !.err = e]

----------------------------------------------------------------------------
(* Thing, Agent *)

\* hasattr(self, 'alive') and self.alive
is_alive(w, t) == t \in DOMAIN w.alive /\ w.alive[t]

----------------------------------------------------------------------------
(* Environment *)

\* the non-numeric branch evaluates zip(thing.location, location) for the
\* things in turn: TypeError when location is None and there is a thing, or
\* when some thing's location is a number or None
ListThingsAtRaises(w, loc) ==
    /\ ~IsNumber(loc)
    /\ IF IsVector(loc)
       THEN \E i \in 1..Len(w.things) : ~IsVector(w.location[w.things[i]])
       ELSE w.things # <<>>

\* all(x == y for x, y in zip(u, v)): zip stops at the shorter of the two
ZipAllEqual(u, v) ==
    \A i \in 1..(IF Len(u) < Len(v) THEN Len(u) ELSE Len(v)) : u[i] = v[i]

\* slip: the matches come newest first
list_things_at_newest_first(w, loc, tclass) ==
    IF IsNumber(loc)
    THEN LET r == SelectSeq(w.things,
                            LAMBDA t : w.location[t] = loc /\ IsInstance(t, tclass))
         IN  [i \in 1..Len(r) |-> r[Len(r) + 1 - i]]
    ELSE <<>>

\* slip: the things at smaller locations are listed too
list_things_at_or_behind(w, loc, tclass) ==
    IF IsNumber(loc)
    THEN SelectSeq(w.things,
                   LAMBDA t : /\ IsNumber(w.location[t])
                              /\ w.location[t] <= loc
                              /\ IsInstance(t, tclass))
    ELSE IF IsVector(loc) /\ ~ListThingsAtRaises(w, loc)
    THEN SelectSeq(w.things,
                   LAMBDA t : /\ ZipAllEqual(Components(w.location[t]), Components(loc))
                              /\ IsInstance(t, tclass))
    ELSE <<>>

list_things_at(w, loc, tclass) ==
    IF IsNumber(loc)
    THEN SelectSeq(w.things, LAMBDA t : w.location[t] = loc /\ IsInstance(t, tclass))
    ELSE IF IsVector(loc) /\ ~ListThingsAtRaises(w, loc)
    THEN SelectSeq(w.things,
                   LAMBDA t : /\ ZipAllEqual(Components(w.location[t]), Components(loc))
                              /\ IsInstance(t, tclass))
    ELSE <<>>

EnvironmentIsDone(w) == ~ \E i \in 1..Len(w.agents) : is_alive(w, w.agents[i])

\* slip: the performance slot is not reset on insertion
add_thing_keeps_score(w, thing, loc) ==
    IF thing \in Range(w.things)
    THEN w
    ELSE LET l  == IF loc # NoneLoc THEN loc ELSE default_location(thing)
             w1 == [w EXCEPT !.location[thing] = l,
                             !.things = Append(@, thing)]
         IN  IF IsInstance(thing, "Agent")
             THEN [w1 EXCEPT !.agents = Append(@, thing)]
             ELSE w1

\* slip: the location argument is ignored
add_thing_ignores_location(w, thing, loc) ==
    IF thing \in Range(w.things)
    THEN w
    ELSE LET w1 == [w EXCEPT !.location[thing] = default_location(thing),
                             !.things = Append(@, thing)]
         IN  IF IsInstance(thing, "Agent")
             THEN [w1 EXCEPT !.performance[thing] = 0,
                             !.agents = Append(@, thing)]
             ELSE w1

\* slip: a thing that is already present is moved to the new location
add_thing_moves_duplicate(w, thing, loc) ==
    IF thing \in Range(w.things)
    THEN [w EXCEPT !.location[thing] =
                       IF loc # NoneLoc THEN loc ELSE default_location(thing)]
    ELSE LET l  == IF loc # NoneLoc THEN loc ELSE default_location(thing)
             w1 == [w EXCEPT !.location[thing] = l,
                             !.things = Append(@, thing)]
         IN  IF IsInstance(thing, "Agent")
             THEN [w1 EXCEPT !.performance[thing] = 0,
                             !.agents = Append(@, thing)]
             ELSE w1

\* slip: a new agent is put at the head of agents
add_thing_agents_first(w, thing, loc) ==
    IF thing \in Range(w.things)
    THEN w
    ELSE LET l  == IF loc # NoneLoc THEN loc ELSE default_location(thing)
             w1 == [w EXCEPT !.location[thing] = l,
                             !.things = Append(@, thing)]
         IN  IF IsInstance(thing, "Agent")
             THEN [w1 EXCEPT !.performance[thing] = 0,
                             !.agents = <<thing>> \o @]
             ELSE w1

add_thing(w, thing, loc) ==
    IF thing \in Range(w.things)
    THEN w
    ELSE LET l  == IF loc # NoneLoc THEN loc ELSE default_location(thing)
             w1 == [w EXCEPT !.location[thing] = l,
                             !.things = Append(@, thing)]
         IN  IF IsInstance(thing, "Agent")
             THEN [w1 EXCEPT !.performance[thing] = 0,
                             !.agents = Append(@, thing)]
             ELSE w1

\* things.remove(thing) raised ValueError and the except branch of
\* delete_thing printed its report; missed counts the reports of the call
\* (console output, kept in the world record only while the call runs)
ValueErrorCaught(w) == [w EXCEPT !.missed = @ + 1]

\* slip: the thing is removed from things only
delete_thing_things_only(w, thing) ==
    IF thing \notin Range(w.things) /\ w.location[thing] = Absent
    THEN Raise(ValueErrorCaught(w), "AttributeError")
    ELSE IF thing \in Range(w.things)
         THEN [w EXCEPT !.things = Remove(@, thing)]
         ELSE ValueErrorCaught(w)

delete_thing(w, thing) ==
    IF thing \notin Range(w.things) /\ w.location[thing] = Absent
    THEN Raise(ValueErrorCaught(w), "AttributeError")
    ELSE LET w1 == IF thing \in Range(w.things)
                   THEN [w EXCEPT !.things = Remove(@, thing)]
                   ELSE ValueErrorCaught(w)
         IN  IF thing \in Range(w1.agents)
             THEN [w1 EXCEPT !.agents = Remove(@, thing)]
             ELSE w1

----------------------------------------------------------------------------
(* Park, BlindDog, program *)

percept(w, agent) == list_things_at(w, w.location[agent], "Thing")

\* slip: any Food in the list wins over a Water that precedes it
program_food_first(percepts) ==
    IF \E i \in 1..Len(percepts) : IsInstance(percepts[i], "Food") THEN "eat"
    ELSE IF \E i \in 1..Len(percepts) : IsInstance(percepts[i], "Water") THEN "drink"
    ELSE "move down"

\* slip: the dog walks past Water
program_skips_water(percepts) ==
    IF \E i \in 1..Len(percepts) : IsInstance(percepts[i], "Food") THEN "eat"
    ELSE "move down"

RECURSIVE program(_)
program(percepts) ==
    IF percepts = <<>> THEN "move down"
    ELSE IF IsInstance(Head(percepts), "Food") THEN "eat"
    ELSE IF IsInstance(Head(percepts), "Water") THEN "drink"
    ELSE program(Tail(percepts))

\* slip: one call moves the dog two places
movedown_by_two(w, agent) ==
    IF IsNumber(w.location[agent])
    THEN [w EXCEPT !.location[agent] = @ + 2]
    ELSE Raise(w, "TypeError")

\* slip: the dog moves up instead of down
movedown_backwards(w, agent) ==
    IF IsNumber(w.location[agent])
    THEN [w EXCEPT !.location[agent] = @ - 1]
    ELSE Raise(w, "TypeError")

\* self.location += 1, a TypeError when the location is None
movedown(w, agent) ==
    IF IsNumber(w.location[agent])
    THEN [w EXCEPT !.location[agent] = @ + 1]
    ELSE Raise(w, "TypeError")

eat(agent, thing) == IsInstance(thing, "Food")

\* slip: drink tests for the class that eat tests for
drink_tests_food(agent, thing) == IsInstance(thing, "Food")

drink(agent, thing) == IsInstance(thing, "Water")

\* agent.eat(items[0]) in the eat branch, agent.drink(items[0]) in the drink branch
Confirms(agent, tclass, thing) ==
    IF tclass = "Food" THEN eat(agent, thing) ELSE drink(agent, thing)

\* slip: the newest item at the location is taken
Consume_newest_item(w, agent, tclass) ==
    LET items == list_things_at(w, w.location[agent], tclass)
    IN  IF ListThingsAtRaises(w, w.location[agent]) THEN Raise(w, "TypeError")
        ELSE IF Len(items) # 0 /\ Confirms(agent, tclass, items[Len(items)])
             THEN delete_thing(w, items[Len(items)])
        ELSE w

\* slip: the item is looked up among all instances ever placed at the
\* location, also those no longer in things
Consume_stale_item(w, agent, tclass) ==
    LET placed == {t \in Instance : /\ IsInstance(t, tclass)
                                    /\ w.location[t] = w.location[agent]}
    IN  IF ListThingsAtRaises(w, w.location[agent]) THEN Raise(w, "TypeError")
        ELSE IF placed # {}
             THEN delete_thing(w, CHOOSE t \in placed : TRUE)
        ELSE w

Consume(w, agent, tclass) ==
    LET items == list_things_at(w, w.location[agent], tclass)
    IN  IF ListThingsAtRaises(w, w.location[agent]) THEN Raise(w, "TypeError")
        ELSE IF Len(items) # 0 /\ Confirms(agent, tclass, items[1])
             THEN delete_thing(w, items[1])
        ELSE w

execute_action(w, agent, action) ==
    LET w1 == [w EXCEPT !.log = Append(@, [agent |-> agent, action |-> action,
                                           at |-> w.location[agent]])]
    IN  CASE action = "move down" -> movedown(w1, agent)
          [] action = "eat"       -> Consume(w1, agent, "Food")
          [] action = "drink"     -> Consume(w1, agent, "Water")
          [] OTHER                -> w1

\* slip: the override forgets the edibles
ParkIsDone_agents_only(w) ==
    ~ \E i \in 1..Len(w.agents) : is_alive(w, w.agents[i])

\* slip: done only when the agents are dead and the edibles are gone
ParkIsDone_needs_both(w) ==
    LET no_edibles  == ~ \E i \in 1..Len(w.things) :
                           IsInstance(w.things[i], "Food") \/ IsInstance(w.things[i], "Water")
        dead_agents == ~ \E i \in 1..Len(w.agents) : is_alive(w, w.agents[i])
    IN  dead_agents /\ no_edibles

ParkIsDone(w) ==
    LET no_edibles  == ~ \E i \in 1..Len(w.things) :
                           IsInstance(w.things[i], "Food") \/ IsInstance(w.things[i], "Water")
        dead_agents == ~ \E i \in 1..Len(w.agents) : is_alive(w, w.agents[i])
    IN  dead_agents \/ no_edibles

is_done(w) == IF w.cls = "Park" THEN ParkIsDone(w) ELSE EnvironmentIsDone(w)

----------------------------------------------------------------------------
(* Environment.step and Environment.run *)

\* the hook does nothing to the environment; exo notes how many actions the
\* call had executed when the hook ran
exogenous_change(w) == [w EXCEPT !.exo = Append(@, Len(w.log))]

\* the action appended for one agent in the first loop of step
Decide(w, agent) == IF w.alive[agent] THEN program(percept(w, agent)) ELSE ""

\* the first loop of step raises: Environment.percept is not implemented, and
\* Park.percept fails in list_things_at for a live agent without a numeric location
DecideError(w) ==
    IF ~ \E i \in 1..Len(w.agents) : w.alive[w.agents[i]] THEN "none"
    ELSE IF w.cls # "Park" THEN "NotImplementedError"
    ELSE IF \E i \in 1..Len(w.agents) :
               w.alive[w.agents[i]] /\ ListThingsAtRaises(w, w.location[w.agents[i]])
         THEN "TypeError"
    ELSE "none"

RECURSIVE ExecuteAll(_, _, _, _)
ExecuteAll(w, ags, actions, i) ==
    IF i > Len(ags) \/ w.err # "none" THEN w
    ELSE ExecuteAll(execute_action(w, ags[i], actions[i]), ags, actions, i + 1)

\* slip: each agent decides and acts before the next one perceives
RECURSIVE DecideAndExecuteAll(_, _, _)
DecideAndExecuteAll(w, ags, i) ==
    IF i > Len(ags) \/ w.err # "none" THEN w
    ELSE DecideAndExecuteAll(execute_action(w, ags[i], Decide(w, ags[i])), ags, i + 1)

step_interleaved(w) ==
    IF is_done(w) THEN w
    ELSE IF DecideError(w) # "none" THEN Raise(w, DecideError(w))
    ELSE LET w1 == DecideAndExecuteAll(w, w.agents, 1)
         IN  IF w1.err # "none" THEN w1 ELSE exogenous_change(w1)

\* slip: the tick runs without asking is_done
step_ignores_done(w) ==
    IF DecideError(w) # "none" THEN Raise(w, DecideError(w))
    ELSE LET actions == [i \in 1..Len(w.agents) |-> Decide(w, w.agents[i])]
             w1      == ExecuteAll(w, w.agents, actions, 1)
         IN  IF w1.err # "none" THEN w1 ELSE exogenous_change(w1)

step(w) ==
    IF is_done(w) THEN w
    ELSE IF DecideError(w) # "none" THEN Raise(w, DecideError(w))
    ELSE LET actions == [i \in 1..Len(w.agents) |-> Decide(w, w.agents[i])]
             w1      == ExecuteAll(w, w.agents, actions, 1)
         IN  IF w1.err # "none" THEN w1 ELSE exogenous_change(w1)

\* slip: the loop does not ask is_done before a step
RECURSIVE run_without_done_check(_, _)
run_without_done_check(w, steps) ==
    IF steps = 0 \/ w.err # "none" THEN w
    ELSE run_without_done_check(step([w EXCEPT !.ticks = @ + 1]), steps - 1)

RECURSIVE run(_, _)
run(w, steps) ==
    IF steps = 0 \/ w.err # "none" THEN w
    ELSE IF is_done(w) THEN w
    ELSE run(step([w EXCEPT !.ticks = @ + 1]), steps - 1)

----------------------------------------------------------------------------
(* Actions: one per public call *)

\* the state and the outcome (exception, emitted actions, ticks) a call
\* leaves; what the call printed (missed) is not kept
Commit(w) ==
    /\ things' = w.things
    /\ agents' = w.agents
    /\ location' = w.location
    /\ alive' = w.alive
    /\ performance' = w.performance
    /\ cls' = w.cls
    /\ err' = w.err
    /\ log' = w.log
    /\ ticks' = w.ticks
    /\ exo' = w.exo

WithinCap(w, cap) == \A d \in Dogs : w.location[d] <= cap

\* env.add_thing(t) when l = NoneLoc, env.add_thing(t, l) otherwise
AddThingCall(t, l) == Commit(add_thing(World, t, l))

DeleteThingCall(t) == Commit(delete_thing(World, t))

StepCall == Commit(step([World EXCEPT !.ticks = 1]))

RunCall(n) == Commit(run(World, n))

\* park.execute_action(a, action), called by a client
ExecuteActionCall(a, action) == Commit(execute_action(World, a, action))

AddThing(T, L) ==
    \E t \in T, l \in L :
        /\ t \in Instance
        /\ AddThingCall(t, l)

DeleteThing(T) ==
    \E t \in T :
        /\ t \in Instance
        /\ DeleteThingCall(t)

Step(cap) ==
    /\ WithinCap(step(World), cap)
    /\ StepCall

Run(N, cap) ==
    \E n \in N :
        /\ WithinCap(run(World, n), cap)
        /\ RunCall(n)

ExecuteAction(T, A, cap) ==
    \E a \in T \cap Dogs, action \in A :
        /\ WithinCap(execute_action(World, a, action), cap)
        /\ ExecuteActionCall(a, action)

\* client code clears the public slot agent.alive
Kill(T) ==
    \E a \in T \cap Dogs :
        /\ alive[a]
        /\ Commit([World EXCEPT !.alive[a] = FALSE])

\* an agent arrives with a score from earlier use (public slot agent.performance)
SetPerformance(T) ==
    \E a \in T \cap Dogs :
        /\ a \notin Range(things)
        /\ performance[a] = 0
        /\ Commit([World EXCEPT !.performance[a] = 1])

InitObjects ==
    /\ things = <<>>
    /\ agents = <<>>
    /\ location = [t \in Instance |-> ClassLocation(t)]
    /\ alive = [a \in Dogs |-> TRUE]
    /\ performance = [a \in Dogs |-> 0]
    /\ err = "none"
    /\ log = <<>>
    /\ ticks = 0
    /\ exo = <<>>

Init == InitObjects /\ cls \in {"Environment", "Park"}

ArgLocs == {NoneLoc} \cup 1..MaxLoc

Next ==
    \/ AddThing(Thing, ArgLocs)
    \/ DeleteThing(Thing)
    \/ Step(MaxLoc + 1)
    \/ Run(0..MaxSteps, MaxLoc + 1)
    \/ Kill(Thing)
    \/ SetPerformance(Thing)

Spec == Init /\ [][Next]_vars

----------------------------------------------------------------------------
(* A Park with one dog, two Foods and one Water, whose client also calls    *)
(* execute_action itself.                                                  *)

PantryThings == {"dogA", "dogfood", "dogfood2", "water"}

PantryLocs == ArgLocs \cup {MaxLoc + 1}

Actions == {"move down", "eat", "drink"}

InitPantry == InitObjects /\ cls = "Park"

NextPantry ==
    \/ AddThing(PantryThings, PantryLocs)
    \/ DeleteThing(PantryThings)
    \/ Step(MaxLoc + 2)
    \/ ExecuteAction(PantryThings, Actions, MaxLoc + 2)

SpecPantry == InitPantry /\ [][NextPantry]_vars

----------------------------------------------------------------------------

(* A Park whose client places the things at tuple locations.               *)

GridThings == {"dogA", "dogfood", "water"}

GridLocs == {Vector(i) : i \in 1..Len(VectorTable)}

InitGrid == InitObjects /\ cls = "Park"

NextGrid ==
    \/ AddThing(GridThings, GridLocs)
    \/ DeleteThing(GridThings)
    \/ Step(MaxLoc + 1)

SpecGrid == InitGrid /\ [][NextGrid]_vars

----------------------------------------------------------------------------

(* A Park that a client populates and then only steps and runs; the client *)
(* goes on calling step.                                                   *)

WalkThings == {"dogA", "dogfood", "dogfood2", "water"}

\* the things are placed at 1..WalkMax
WalkMax == MaxLoc + 1

\* no run is asked for more steps than this
WalkBudget == WalkMax + 2

\* a dog is not moved past this location under SpecWalk
WalkCap == WalkMax + WalkBudget

\* the orders in which the client adds some of the things, each at most once
WalkOrders ==
    {s \in UNION {[1..k -> WalkThings] : k \in 0..Cardinality(WalkThings)} :
        \A i \in 1..Len(s), j \in 1..Len(s) : s[i] = s[j] => i = j}

\* Park() and the freshly made instances
EmptyPark ==
    [things |-> <<>>, agents |-> <<>>,
     location |-> [t \in Instance |-> ClassLocation(t)],
     alive |-> [a \in Dogs |-> TRUE], performance |-> [a \in Dogs |-> 0],
     cls |-> "Park", err |-> "none", log |-> <<>>, ticks |-> 0, exo |-> <<>>,
     missed |-> 0]

\* park.add_thing(s[1], f[s[1]]); park.add_thing(s[2], f[s[2]]); ...
RECURSIVE Populate(_, _, _)
Populate(w, s, f) ==
    IF s = <<>> THEN w
    ELSE Populate(add_thing(w, Head(s), f[Head(s)]), Tail(s), f)

InitWalk ==
    \E s \in WalkOrders, f \in [WalkThings -> 1..WalkMax] :
        LET w == Populate(EmptyPark, s, f)
        IN  /\ things = w.things
            /\ agents = w.agents
            /\ location = w.location
            /\ alive = w.alive
            /\ performance = w.performance
            /\ cls = w.cls
            /\ err = w.err
            /\ log = w.log
            /\ ticks = w.ticks
            /\ exo = w.exo

\* the step budgets the client passes to run
WalkRuns == {1, WalkBudget}

NextWalk ==
    \/ Step(WalkCap)
    \/ Run(WalkRuns, WalkCap)

\* while the Park is not done the client calls step again, as the loop of
\* run does
KeepStepping ==
    /\ ~is_done(World)
    /\ \E w \in {step([World EXCEPT !.ticks = 1])} :
          /\ WithinCap(w, WalkCap)
          /\ Commit(w)

SpecWalk == InitWalk /\ [][NextWalk]_vars /\ WF_vars(KeepStepping)

----------------------------------------------------------------------------

(* The notebook's population: one dog, one Food, one Water; the locations  *)
(* and step budgets are the ones its cells pass.                           *)

ScenarioThings == {"dogA", "dogfood", "water"}

ScenarioLocs == {1, 5, 7, 15}

ScenarioSteps == {5, 10}

InitScenario == InitObjects /\ cls = "Park"

NextScenario ==
    \/ AddThing(ScenarioThings, ScenarioLocs)
    \/ DeleteThing(ScenarioThings)
    \/ Step(ScenarioCap)
    \/ Run(ScenarioSteps, ScenarioCap)
    \/ Kill(ScenarioThings)
    \/ SetPerformance(ScenarioThings)

SpecScenario == InitScenario /\ [][NextScenario]_vars

----------------------------------------------------------------------------
(* Vocabulary of the properties *)

\* the state after the transition, as a world
WorldAfter ==
    [things |-> things', agents |-> agents', location |-> location',
     alive |-> alive', performance |-> performance', cls |-> cls',
     err |-> err', log |-> log', ticks |-> ticks', exo |-> exo',
     missed |-> 0]

Index(s, x) == CHOOSE i \in 1..Len(s) : s[i] = x

Entry(a, act, l) == [agent |-> a, action |-> act, at |-> l]

----------------------------------------------------------------------------
(* C1 *)

\* C1: after any sequence of add_thing, delete_thing, step and run calls on an
\* Environment or a Park, every element of agents is an element of things.
C1_AgentsSubsetOfThings == Range(agents) \subseteq Range(things)

\* an agent was added, moved by a step and deleted while another agent stays
C1_Witness ==
    /\ cls = "Park"
    /\ agents = <<"dogB">>
    /\ "dogA" \notin Range(things)
    /\ location["dogA"] > 1

----------------------------------------------------------------------------
(* C2 *)

\* two live BlindDogs a (earlier in agents) and b at the numeric location of
\* the one Food of the Park
TwoDogsOneFood(a, b) ==
    /\ cls = "Park"
    /\ a \in Range(agents) /\ b \in Range(agents)
    /\ Index(agents, a) < Index(agents, b)
    /\ alive[a] /\ alive[b]
    /\ IsNumber(location[a])
    /\ location[a] = location[b]
    /\ "dogfood" \in Range(things)
    /\ location["dogfood"] = location[a]

\* a Water at the location of the Food that was inserted before the Food
WaterBeforeFood ==
    /\ "water" \in Range(things)
    /\ "dogfood" \in Range(things)
    /\ location["water"] = location["dogfood"]
    /\ Index(things, "water") < Index(things, "dogfood")

\* every agent gets the action decided on the state at the start of the tick
DecidedAtStart ==
    /\ Len(log') = Len(agents)
    /\ \A i \in 1..Len(agents) :
          /\ log'[i].agent = agents[i]
          /\ log'[i].action = Decide(World, agents[i])

BothEatOneFoodGone(a, b) ==
    /\ log'[Index(agents, a)].action = "eat"
    /\ log'[Index(agents, b)].action = "eat"
    /\ things' = Remove(things, "dogfood")
    /\ location'[a] = location[a]
    /\ location'[b] = location[b]

\* C2 as stated: one step of a Park with two BlindDogs at the location of
\* exactly one Food makes both decide "eat", removes the Food and moves no dog.
C2_Original ==
    [][\A a \in Dogs, b \in Dogs :
          (TwoDogsOneFood(a, b) /\ StepCall) => BothEatOneFoodGone(a, b)]_vars

\* C2 (amended): in a step that is not done and raises nothing, every agent
\* is given the action its program decides on the state at the start of the
\* tick; with two live BlindDogs at the location of the one Food, and no Water
\* there that precedes the Food in things, both decide "eat", exactly the Food
\* is removed and neither dog moves.
C2_DecideBeforeAct ==
    [][StepCall =>
          /\ (~is_done(World) /\ DecideError(World) = "none") => DecidedAtStart
          /\ \A a \in Dogs, b \in Dogs :
                (TwoDogsOneFood(a, b) /\ ~WaterBeforeFood) => BothEatOneFoodGone(a, b)]_vars

\* both dogs were told to eat at the same place and the Food is gone
C2_Witness ==
    /\ Len(log) = 2
    /\ log[1].action = "eat" /\ log[2].action = "eat"
    /\ log[1].agent # log[2].agent
    /\ log[1].at = log[2].at
    /\ "dogfood" \notin Range(things)
    /\ location[log[1].agent] = log[1].at
    /\ location[log[2].agent] = log[2].at
    /\ ticks = 1

----------------------------------------------------------------------------
(* C3 *)

AddedAsAgent(a, l) ==
    /\ a \in Range(agents')
    /\ a \in Range(things')
    /\ performance'[a] = 0
    /\ location'[a] = l

\* C3 as stated: after add_thing(a, loc), for every state, Agent a and loc.
C3_Original ==
    [][\A a \in Dogs, l \in ArgLocs : AddThingCall(a, l) => AddedAsAgent(a, l)]_vars

\* C3 (amended): for every state, every Agent a that is not already in things
\* and every location loc, after add_thing(a, loc): a is in agents and in
\* things, a.performance = 0 and a.location = loc.
C3_AddAgent ==
    [][\A a \in Dogs, l \in ArgLocs :
          (a \notin Range(things) /\ AddThingCall(a, l)) => AddedAsAgent(a, l)]_vars

\* two dogs were inserted, one without a location and one at location 1
C3_Witness ==
    /\ agents = <<"dogA", "dogB">>
    /\ performance["dogB"] = 0
    /\ performance["dogA"] = 0
    /\ location["dogB"] = 1
    /\ location["dogA"] = NoneLoc

----------------------------------------------------------------------------
(* C4 *)

\* C4 as stated: every element of things has a non-null location.
C4_Original ==
    \A t \in Range(things) : location[t] # NoneLoc /\ location[t] # Absent

\* C4 (amended): every element of things has a location attribute at all
\* times after it was added.  add_thing with a location stores that location,
\* which is not null; add_thing without one stores default_location(thing),
\* which is None for Environment and Park; and a location that is not null
\* never becomes null while the thing stays in things.
C4_LocationOnceAdded ==
    [][/\ \A t \in Range(things') : location'[t] # Absent
       /\ \A t \in Thing, l \in ArgLocs :
             (t \notin Range(things) /\ AddThingCall(t, l)) =>
                 /\ l # NoneLoc => location'[t] = l /\ location'[t] # NoneLoc
                 /\ l = NoneLoc => location'[t] = default_location(t)
       /\ \A t \in Range(things) \cap Range(things') :
             location[t] # NoneLoc => location'[t] # NoneLoc]_vars

\* a thing added without a location beside one added with a location
C4_Witness ==
    /\ "dogfood" \in Range(things) /\ location["dogfood"] = NoneLoc
    /\ "water" \in Range(things) /\ location["water"] = 1
    /\ "dogA" \in Range(things) /\ location["dogA"] > 1

----------------------------------------------------------------------------
(* C5 *)

\* C5: for every state and every Thing t that is not in things, whether it
\* was removed before or was never added, delete_thing(t) raises nothing and
\* leaves things and agents as they were.
C5_DeleteMissing ==
    [][\A t \in Thing :
          (t \notin Range(things) /\ DeleteThingCall(t)) =>
              /\ err' = "none"
              /\ things' = things
              /\ agents' = agents]_vars

----------------------------------------------------------------------------
(* C6 *)

IsFood(t) == IsInstance(t, "Food")

IsWater(t) == IsInstance(t, "Water")

HasFood(p) == \E i \in 1..Len(p) : IsFood(p[i])

HasWater(p) == \E i \in 1..Len(p) : IsWater(p[i])

\* the first Food or Water of the list is a Food
FoodFirst(p) ==
    \E i \in 1..Len(p) : IsFood(p[i]) /\ \A j \in 1..(i-1) : ~IsWater(p[j])

\* the first Food or Water of the list is a Water
WaterFirst(p) ==
    \E i \in 1..Len(p) : IsWater(p[i]) /\ \A j \in 1..(i-1) : ~IsFood(p[j])

NoFoodButWater(p) == ~HasFood(p) /\ HasWater(p)

Neither(p) == ~HasFood(p) /\ ~HasWater(p)

\* the actions a step gives its live agents, against a rule on their
\* percepts: the rule as stated (any Food wins) or by the first Food or Water
ProgramFollows(rule) ==
    (StepCall /\ ~is_done(World) /\ DecideError(World) = "none") =>
        \A i \in 1..Len(agents) :
            LET p   == percept(World, agents[i])
                act == log'[i].action
            IN  alive[agents[i]] =>
                    /\ act = "eat" <=>
                           IF rule = "stated" THEN HasFood(p) ELSE FoodFirst(p)
                    /\ act = "drink" <=>
                           IF rule = "stated" THEN NoFoodButWater(p) ELSE WaterFirst(p)
                    /\ act = "move down" <=> Neither(p)

\* C6 as stated: "eat" whenever the percept list holds a Food at any
\* position, "drink" exactly when it holds no Food but a Water, "move down"
\* exactly when it holds neither.
C6_Original == [][ProgramFollows("stated")]_vars

\* C6 (amended): the program returns "eat" exactly when the first Food or
\* Water instance of the percept list is a Food, "drink" exactly when it is a
\* Water, and "move down" exactly when the list holds neither.
C6_Program == [][ProgramFollows("first")]_vars

\* a dog was told to drink where a Food lies too
C6_Witness ==
    /\ ticks = 1
    /\ Len(log) = 1
    /\ log[1].action = "drink"
    /\ "dogfood" \in Range(things)
    /\ location["dogfood"] = log[1].at
    /\ "water" \notin Range(things)

----------------------------------------------------------------------------
(* The notebook's three runs: C8, C9, C7 *)

\* the dog's "move down" actions taken at locations from..to
Moves(from, to) == [i \in 1..(to - from + 1) |-> Entry("dogA", "move down", from + i - 1)]

\* dog added at 1, Food at 5, Water at 7
Scenario1Start ==
    /\ cls = "Park"
    /\ Range(things) = {"dogA", "dogfood", "water"}
    /\ alive["dogA"]
    /\ location["dogA"] = 1 /\ location["dogfood"] = 5 /\ location["water"] = 7

\* dog at 5, the Water at 7 is what is left
Scenario2Start ==
    /\ cls = "Park"
    /\ Range(things) = {"dogA", "water"}
    /\ alive["dogA"]
    /\ location["dogA"] = 5 /\ location["water"] = 7

\* dog at 7, no Food and no Water left
Scenario2End ==
    /\ cls = "Park"
    /\ things = <<"dogA">>
    /\ alive["dogA"]
    /\ location["dogA"] = 7

\* the Water was added again, at 15
Scenario3Start ==
    /\ cls = "Park"
    /\ things = <<"dogA", "water">>
    /\ alive["dogA"]
    /\ location["dogA"] = 7 /\ location["water"] = 15

\* C8: scenario 1: run(5) executes exactly five ticks, "move down" at 1, 2,
\* 3, 4 and then "eat" at 5; afterwards the dog is at 5, the Food is no
\* longer in things and the Water still is.
C8_Scenario1 ==
    [][(Scenario1Start /\ RunCall(5)) =>
          /\ err' = "none"
          /\ ticks' = 5
          /\ log' = Moves(1, 4) \o <<Entry("dogA", "eat", 5)>>
          /\ location'["dogA"] = 5
          /\ "dogfood" \notin Range(things')
          /\ "water" \in Range(things')]_vars

C8_Witness ==
    /\ ticks = 5
    /\ log = Moves(1, 4) \o <<Entry("dogA", "eat", 5)>>
    /\ location["dogA"] = 5
    /\ things = <<"dogA", "water">>
    /\ location["water"] = 7

\* C9: scenario 2: scenario 1 ends with the dog at 5 and the Water at 7, and
\* from there run(5) executes only three ticks, "move down" at 5 and at 6 and
\* then "drink" at 7; the Water is removed, is_done() is true afterwards and
\* the two remaining steps of the budget are not executed.
C9_Scenario2 ==
    [][/\ (Scenario1Start /\ RunCall(5)) => Scenario2Start'
       /\ (Scenario2Start /\ RunCall(5)) =>
             /\ err' = "none"
             /\ ticks' = 3
             /\ log' = Moves(5, 6) \o <<Entry("dogA", "drink", 7)>>
             /\ "water" \notin Range(things')
             /\ is_done(WorldAfter)
             /\ Scenario2End']_vars

C9_Witness ==
    /\ ticks = 3
    /\ log = Moves(5, 6) \o <<Entry("dogA", "drink", 7)>>
    /\ Scenario2End
    /\ is_done(World)

\* what scenario 3 leaves behind: the Water is removed, the dog is at 15
Scenario3End ==
    /\ err' = "none"
    /\ "water" \notin Range(things')
    /\ location'["dogA"] = 15

\* C7 as stated: run(10) produces exactly seven "move down" actions followed
\* by one "drink" at location 15, after which the Water is removed.
C7_Original ==
    [][(Scenario3Start /\ RunCall(10)) =>
          /\ Len(log') = 8
          /\ \A i \in 1..7 : log'[i].action = "move down"
          /\ log'[8] = Entry("dogA", "drink", 15)
          /\ Scenario3End]_vars

\* C7 (amended): scenario 3: from the end of scenario 2, adding the Water at
\* 15 and calling run(10) produces exactly eight "move down" actions, taken
\* at locations 7 to 14, followed by one "drink" at 15, after which the Water
\* is removed; the run takes nine ticks.
C7_Scenario3 ==
    [][/\ (Scenario2End /\ AddThingCall("water", 15)) => Scenario3Start'
       /\ (Scenario3Start /\ RunCall(10)) =>
             /\ ticks' = 9
             /\ log' = Moves(7, 14) \o <<Entry("dogA", "drink", 15)>>
             /\ Scenario3End]_vars

C7_Witness ==
    /\ ticks = 9
    /\ log = Moves(7, 14) \o <<Entry("dogA", "drink", 15)>>
    /\ things = <<"dogA">>
    /\ location["dogA"] = 15
    /\ location["water"] = 15

----------------------------------------------------------------------------
(* C10 *)

RECURSIVE StepPow(_, _)
\* the world after j calls of step
StepPow(w, j) == IF j = 0 THEN w ELSE step(StepPow(w, j - 1))

\* min(n, k), k the number of ticks after which is_done() first holds
TicksDue(w, n) ==
    CHOOSE j \in 0..n :
        /\ j = n \/ is_done(StepPow(w, j))
        /\ \A i \in 0..(j - 1) : ~is_done(StepPow(w, i))

\* C10: a run(n) that returns has called step exactly min(n, k) times, k
\* being the number of ticks after which is_done() first holds (0 when it
\* holds at the call), so no tick starts in a done state; on return is_done()
\* holds or exactly n ticks were executed.
C10_Run ==
    [][\A n \in ScenarioSteps :
          (err' = "none" /\ RunCall(n)) =>
              /\ ticks' = TicksDue(World, n)
              /\ is_done(WorldAfter) \/ ticks' = n]_vars

\* a run that stopped after four ticks, before its budget, because the dog
\* ate the last edible
C10_Witness ==
    /\ ticks = 4
    /\ err = "none"
    /\ Len(log) = 4
    /\ log[4].action = "eat"
    /\ is_done(World)

----------------------------------------------------------------------------
(* C11 *)

\* C11: add_thing(t, loc2) of a thing t that is already in things changes
\* nothing: things and agents keep their length and order, and t keeps its
\* location and (an agent) its performance, for every loc2.
C11_DuplicateAdd ==
    [][\A t \in Thing, l \in ArgLocs :
          (t \in Range(things) /\ AddThingCall(t, l)) =>
              /\ things' = things
              /\ agents' = agents
              /\ location' = location
              /\ performance' = performance
              /\ err' = "none"]_vars

\* a dog that a step moved to 2 is in things, so is everything else, and the
\* last call was no step and raised nothing: every add_thing from here is a
\* duplicate
C11_Witness ==
    /\ Range(things) = Thing
    /\ location["dogA"] = 2
    /\ location["dogB"] = 1
    /\ err = "none" /\ ticks = 0

----------------------------------------------------------------------------
(* C12 *)

\* C12: run(n) never aborts with an error other than NotImplementedError, for
\* every Park populated through add_thing at explicit or defaulted locations
\* and every n.
C12_RunReturns ==
    [][\A n \in 0..MaxSteps :
          RunCall(n) => err' \in {"none", "NotImplementedError"}]_vars

----------------------------------------------------------------------------
(* C13 *)

\* the number of "move down" actions the log holds for dog d
MovesOf(l, d) ==
    Cardinality({i \in 1..Len(l) : l[i].agent = d /\ l[i].action = "move down"})

\* C13: across step and run calls on a Park a BlindDog's location never
\* decreases: it grows by exactly 1 for every "move down" executed for that
\* dog and is unchanged by every other tick ("eat", "drink", the empty action
\* of a dead dog, a tick skipped because is_done() holds).
C13_LocationMonotone ==
    [][(StepCall \/ \E n \in ScenarioSteps : RunCall(n)) =>
          \A d \in Dogs :
              /\ location'[d] = location[d] + MovesOf(log', d)
              /\ location'[d] >= location[d]]_vars

\* a run in which the dog moved down twice, ate, and moved down again
C13_Witness ==
    /\ Len(log) >= 4
    /\ log[1].action = "move down"
    /\ log[2].action = "move down"
    /\ log[3].action = "eat"
    /\ log[4].action = "move down"
    /\ location["dogA"] = log[1].at + MovesOf(log, "dogA")

----------------------------------------------------------------------------
(* C14 *)

NoLiveAgent == \A a \in Range(agents) : ~alive[a]

NoEdibles == \A t \in Range(things) : Class(t) \notin {"Food", "Water"}

\* C14: Park.is_done() is true exactly when no agent in agents is alive or
\* neither a Food nor a Water is in things, wherever the edibles lie; so a
\* Park without agents is done, and one with a live agent and an edible that
\* the agent cannot reach is not.
C14_ParkIsDone ==
    cls = "Park" => (is_done(World) <=> (NoLiveAgent \/ NoEdibles))

\* a step moved the live dog on while the Food lies at no location a dog
\* comes to, and the Park is not done
C14_Witness ==
    /\ cls = "Park"
    /\ ticks = 1
    /\ Len(log) = 1 /\ log[1].action = "move down"
    /\ alive[log[1].agent]
    /\ "dogfood" \in Range(things)
    /\ location["dogfood"] = NoneLoc
    /\ location[log[1].agent] = 2
    /\ ~is_done(World)

----------------------------------------------------------------------------
(* C15 *)

TypeFilters == {"Thing", "Agent", "BlindDog", "Food", "Water"}

\* C15: for a scalar location loc and a type filter T, list_things_at(loc, T)
\* returns exactly the elements of things whose location equals loc and
\* whose type is T or a subtype of T, each once, in the order of their
\* insertion into things.
C15_ListThingsAt ==
    \A l \in 0..(MaxLoc + 1), T \in TypeFilters :
        LET r == list_things_at(World, l, T)
        IN  /\ Range(r) = {t \in Range(things) : location[t] = l /\ IsInstance(t, T)}
            /\ Cardinality(Range(r)) = Len(r)
            /\ \A i \in 1..Len(r), j \in 1..Len(r) :
                  i < j => Index(things, r[i]) < Index(things, r[j])

\* after a step in which two dogs at location 1 perceived (and one drank the
\* Water): three things lie at 1, two of them agents, one a Food
C15_Witness ==
    /\ ticks = 1
    /\ Len(log) = 2
    /\ Len(list_things_at(World, 1, "Thing")) = 3
    /\ Len(list_things_at(World, 1, "Agent")) = 2
    /\ list_things_at(World, 1, "Food") = <<"dogfood">>
    /\ list_things_at(World, 1, "Water") = <<>>

----------------------------------------------------------------------------
(* C17 *)

NoDuplicates(s) == \A i \in 1..Len(s), j \in 1..Len(s) : s[i] = s[j] => i = j

\* C17: after any sequence of add_thing and delete_thing calls, agents is
\* exactly the subsequence of things made of its Agent instances (same
\* members, same relative order), and neither things nor agents holds the
\* same instance twice.
C17_AgentsSubsequence ==
    /\ agents = SelectSeq(things, LAMBDA t : IsInstance(t, "Agent"))
    /\ NoDuplicates(things)
    /\ NoDuplicates(agents)

\* both dogs were added around the Food, the first-added dog was deleted and
\* added again, so it now comes last in things and in agents
C17_Witness ==
    /\ things = <<"dogfood", "dogB", "dogA">>
    /\ agents = <<"dogB", "dogA">>
    /\ location["water"] # Absent
    /\ "water" \notin Range(things)
    /\ ticks = 0

----------------------------------------------------------------------------
(* C16 *)

\* execute_action ran for the pairs (agent, action decided at the start of
\* the tick) in the order of agents, then exogenous_change ran once
ActedInOrderThenExogenous ==
    /\ Len(log') = Len(agents)
    /\ \A i \in 1..Len(agents) :
          /\ log'[i].agent = agents[i]
          /\ log'[i].action = Decide(World, agents[i])
    /\ exo' = <<Len(agents)>>

\* C16: in a step of a Park that is not done, execute_action is applied to
\* the (agent, action) pairs in the order of agents, each agent receiving the
\* action decided for it in the first phase, and exogenous_change is invoked
\* exactly once, after the last execute_action of the tick; in a done step
\* exogenous_change is not invoked.
C16_StepProtocol ==
    [][(cls = "Park" /\ StepCall) =>
          IF is_done(World) THEN exo' = <<>> ELSE ActedInOrderThenExogenous]_vars

----------------------------------------------------------------------------
(* C19 *)

\* C19: if is_done() holds when step() is called, step() changes nothing:
\* things, agents, every location and every performance are unchanged, no
\* program is invoked and no percept is computed (so no action is executed,
\* the hook does not run and nothing is raised).
C19_DoneStep ==
    [][(is_done(World) /\ StepCall) =>
          /\ things' = things
          /\ agents' = agents
          /\ location' = location
          /\ performance' = performance
          /\ alive' = alive
          /\ log' = <<>>
          /\ exo' = <<>>
          /\ err' = "none"]_vars

\* a step was called on a done Park (no edibles) that holds two live dogs,
\* one of them without a location, whose percept would have raised
C19_Witness ==
    /\ cls = "Park"
    /\ ticks = 1
    /\ log = <<>>
    /\ err = "none"
    /\ is_done(World)
    /\ Len(agents) = 2
    /\ alive[agents[1]] /\ alive[agents[2]]
    /\ location[agents[1]] = NoneLoc
    /\ location[agents[2]] = 1

----------------------------------------------------------------------------
(* C18 *)

\* the positions in things of the instances of tclass that lie at location l
PositionsAt(l, tclass) ==
    {i \in 1..Len(things) : IsInstance(things[i], tclass) /\ location[things[i]] = l}

Least(S) == CHOOSE k \in S : \A j \in S : k <= j

WithoutPosition(s, k) == [i \in 1..(Len(s) - 1) |-> IF i < k THEN s[i] ELSE s[i + 1]]

\* C18: executing "eat" for an agent at location L in a Park: if at least one
\* Food is at L, exactly one Thing is removed from things, the earliest
\* inserted Food at L, and all other Things, agents and every location are
\* unchanged; if no Food is at L the whole environment state is unchanged.
\* The same holds for "drink" with Water.
C18_EatDrinkFrame ==
    [][\A a \in Dogs, action \in {"eat", "drink"} :
          (cls = "Park" /\ IsNumber(location[a]) /\ ExecuteActionCall(a, action)) =>
              LET tclass == IF action = "eat" THEN "Food" ELSE "Water"
                  at     == PositionsAt(location[a], tclass)
              IN  /\ things' = IF at # {} THEN WithoutPosition(things, Least(at))
                                           ELSE things
                  /\ agents' = agents
                  /\ location' = location
                  /\ alive' = alive
                  /\ performance' = performance
                  /\ err' = "none"]_vars

\* the client had the dog eat where both Foods lay: one Food is gone, the
\* other is still there, nothing has moved
C18_Witness ==
    /\ ticks = 0
    /\ log = <<Entry("dogA", "eat", 2)>>
    /\ location["dogA"] = 2
    /\ location["dogfood"] = 2
    /\ location["dogfood2"] = 2
    /\ things = <<"water", "dogA", "dogfood">>
    /\ location["water"] = 2
    /\ err = "none"

----------------------------------------------------------------------------
(* C20 *)

\* C20: for a tuple query location, list_things_at returns a Thing only if
\* that Thing's location is component-wise equal to the query: the same
\* number of components and equal values in every component; a Thing whose
\* location tuple is shorter or longer than the query is never returned.
C20_VectorMatch ==
    \A q \in GridLocs, T \in TypeFilters :
        \A t \in Range(list_things_at(World, q, T)) :
            /\ IsVector(location[t])
            /\ Len(Components(location[t])) = Len(Components(q))
            /\ \A i \in 1..Len(Components(q)) : Components(location[t])[i] = Components(q)[i]

----------------------------------------------------------------------------
(* C21 *)

LiveDogs == {a \in Range(agents) : alive[a]}

Edibles == {t \in Range(things) : Class(t) \in {"Food", "Water"}}

\* a Park whose one live dog d stands at an integer location with a
\* non-empty set of Food/Water items, all at integer locations not behind it
OneDogItemsAhead(d) ==
    /\ cls = "Park"
    /\ LiveDogs = {d}
    /\ IsNumber(location[d])
    /\ Edibles # {}
    /\ \A t \in Edibles : IsNumber(location[t]) /\ location[t] >= location[d]

Greatest(S) == CHOOSE k \in S : \A j \in S : j <= k

\* (m - p) + e
TicksToFinish(d) ==
    (Greatest({location[t] : t \in Edibles}) - location[d]) + Cardinality(Edibles)

\* C21: in a Park with one live BlindDog at integer location p and a finite
\* non-empty set of Food/Water items all at integer locations >= p, repeated
\* step() calls eventually remove every Food and Water and reach is_done();
\* this takes exactly (m - p) + e non-done ticks, m the largest item location
\* and e the number of items, so run(n) with n at least that many ends with
\* is_done() true.
C21_WalkTerminates ==
    /\ [](\A d \in Dogs :
            OneDogItemsAhead(d) =>
                /\ TicksDue(World, WalkBudget) = TicksToFinish(d)
                /\ \A t \in Edibles : t \notin Range(StepPow(World, TicksToFinish(d)).things))
    /\ [][\A d \in Dogs, n \in WalkRuns :
            (OneDogItemsAhead(d) /\ n >= TicksToFinish(d) /\ RunCall(n)) =>
                /\ is_done(WorldAfter)
                /\ ticks' = TicksToFinish(d)
                /\ err' = "none"]_vars
    /\ (\E d \in Dogs : OneDogItemsAhead(d)) ~> (is_done(World) /\ NoEdibles)

\* one run took the dog from 1 over a Food at 1 to a Water and a Food at 2:
\* (2 - 1) + 3 = 4 ticks, then the Park was done
C21_Witness ==
    /\ ticks = 4
    /\ err = "none"
    /\ log = <<Entry("dogA", "eat", 1), Entry("dogA", "move down", 1),
               Entry("dogA", "drink", 2), Entry("dogA", "eat", 2)>>
    /\ things = <<"dogA">>
    /\ is_done(World)

----------------------------------------------------------------------------
(* C22 *)

\* a Food or Water t of the Park lies at an integer location strictly less
\* than the location of every live dog
BehindEveryLiveDog(t) ==
    /\ cls = "Park"
    /\ t \in Edibles
    /\ IsNumber(location[t])
    /\ \A d \in LiveDogs : IsNumber(location[d]) /\ location[t] < location[d]

\* the step or run leaves t in things, so the edibles are not exhausted, and
\* a run(n) executes all its n ticks
StaysAndAllTicksRun(t) ==
    /\ t \in Range(things')
    /\ ~NoEdibles'
    /\ err' = "none"
    /\ \A n \in WalkRuns : RunCall(n) => ticks' = n

\* C22 as stated: a Food or Water whose location is strictly less than the
\* location of every live BlindDog in the Park is never removed by a step or
\* run, is_done() does not become true and every run(n) executes all n ticks.
C22_Original ==
    [][\A t \in WalkThings :
          (BehindEveryLiveDog(t) /\ (StepCall \/ \E n \in WalkRuns : RunCall(n)))
              => StaysAndAllTicksRun(t)]_vars

\* C22 (amended): in a Park with at least one live BlindDog, a Food or Water
\* whose location is strictly less than the location of every live BlindDog
\* is not removed by any step or run and is still behind every live dog
\* afterwards, so is_done() never becomes true and every run(n) from such a
\* state executes all n ticks.
C22_ItemBehindStays ==
    [][\A t \in WalkThings :
          (/\ LiveDogs # {}
           /\ BehindEveryLiveDog(t)
           /\ (StepCall \/ \E n \in WalkRuns : RunCall(n)))
              => /\ StaysAndAllTicksRun(t)
                 /\ ~is_done(WorldAfter)
                 /\ BehindEveryLiveDog(t)'
                 /\ LiveDogs' # {}]_vars

\* a run of WalkBudget steps moved the dog on, every tick, away from the Food
\* that lay behind it
C22_Witness ==
    /\ ticks = WalkBudget
    /\ Len(log) = WalkBudget
    /\ \A i \in 1..Len(log) : log[i].action = "move down"
    /\ "dogfood" \in Range(things)
    /\ IsNumber(location["dogfood"])
    /\ location["dogfood"] < log[1].at
    /\ location["dogA"] = log[1].at + WalkBudget
    /\ ~is_done(World)

----------------------------------------------------------------------------
(* C23 *)

\* the "eat" and "drink" actions among the executed actions
ConsumeEntries(l) == {i \in 1..Len(l) : l[i].action \in {"eat", "drink"}}

\* C23: during any step of a Park whose agents are BlindDogs, delete_thing
\* is only called on a Thing that is in things (the except branch for a
\* missing thing is never taken, also when several dogs decide to consume
\* the same item in one tick), each agent removes at most one item per tick,
\* and the number of Food/Water items in things never increases across step
\* and run.
C23_NoMissingDelete ==
    /\ [](cls = "Park" =>
            /\ step(World).missed = 0
            /\ run(World, MaxSteps).missed = 0
            /\ \A a \in Range(agents), action \in Actions :
                  LET w == execute_action(World, a, action)
                  IN  /\ w.missed = 0
                      /\ Len(things) - Len(w.things) \in {0, 1})
    /\ [][(cls = "Park" /\ ticks' >= 1) =>
            /\ Edibles' \subseteq Edibles
            /\ Cardinality(Edibles \ Edibles') <= Cardinality(ConsumeEntries(log'))
            /\ ticks' = 1 =>
                  \A a \in Dogs :
                      Cardinality({i \in 1..Len(log') : log'[i].agent = a}) <= 1]_vars

\* two dogs at the place of the one Water both decided to drink in one tick:
\* the Water is gone, and the step took it out once
C23_Witness ==
    /\ cls = "Park"
    /\ ticks = 1
    /\ err = "none"
    /\ Len(log) = 2
    /\ log[1].action = "drink" /\ log[2].action = "drink"
    /\ log[1].agent # log[2].agent
    /\ log[1].at = 1 /\ log[2].at = 1
    /\ location["water"] = 1
    /\ "water" \notin Range(things)
    /\ Len(things) = 3

====
